---- MODULE Spec2Model ----
(***************************************************************************)
(* A model of logprise (src/logprise/__init__.py): the Appriser class      *)
(* that buffers loguru records at or above a threshold and delivers them   *)
(* through apprise, periodically, on demand, at exit and on an uncaught    *)
(* exception.                                                              *)
(*                                                                         *)
(* Operations that run on the calling thread are one action each.  The     *)
(* flush loop of an instance runs on its own thread; a delivery made by    *)
(* it is two steps (the body is built, then apprise answers), so that the  *)
(* calling thread can act while a periodic delivery is in progress.        *)
(***************************************************************************)
EXTENDS Integers, Sequences, FiniteSets, TLC

\* ------------------------------------------------------------------ bounds
MaxInstances == 2     \* Appriser objects constructed in the process
MaxRecords == 2       \* log records created in one behaviour
MaxHandlerId == 3     \* largest handler id loguru hands out
MaxThreads == 2       \* live flush threads of one instance

\* --------------------------------------------------------------- constants
DefaultFlushInterval == 3600

Inst == 1..MaxInstances

\* loguru's level table (logger.level(name).no)
LevelNo(name) ==
    CASE name = "TRACE" -> 5
      [] name = "SUCCESS" -> 25
      [] name = "DEBUG" -> 10
      [] name = "INFO" -> 20
      [] name = "WARNING" -> 30
      [] name = "ERROR" -> 40
      [] name = "CRITICAL" -> 50

LevelNames == {"TRACE", "DEBUG", "INFO", "SUCCESS", "WARNING", "ERROR", "CRITICAL"}

\* A Python value given for a setting: its type, its number (the rank of a
\* Level object) and its string (the name of a Level object).
IntVal(n) == [type |-> "int", num |-> n, name |-> ""]
FloatVal(n) == [type |-> "float", num |-> n, name |-> ""]
StrVal(x) == [type |-> "str", num |-> 0, name |-> x]
LevelVal(x, n) == [type |-> "Level", num |-> n, name |-> x]
NoneVal == [type |-> "NoneType", num |-> 0, name |-> ""]

\* bool(value)
Truthy(value) ==
    CASE value.type \in {"int", "bool", "float"} -> value.num # 0
      [] value.type = "str" -> value.name # ""
      [] value.type = "NoneType" -> FALSE
      [] OTHER -> TRUE

\* the values the application gives as a trigger level and as a flush interval
LevelValues ==
    {IntVal(0), IntVal(LevelNo("DEBUG")), StrVal("WARNING"), StrVal("INVALID_LEVEL"), StrVal(""),
     LevelVal("ERROR", LevelNo("ERROR")), LevelVal("ZERO", 0), FloatVal(30), NoneVal}
IntervalValues ==
    {IntVal(1), FloatVal(1), IntVal(3600), IntVal(0), IntVal(-1), FloatVal(-1), StrVal("invalid"), NoneVal}

\* what the application logs: a warning whose formatted message holds a carriage
\* return, and an error whose message holds none
LogInputs ==
    {[level |-> LevelNo("WARNING"), text |-> <<"w", "CR", "LF">>],
     [level |-> LevelNo("ERROR"), text |-> <<"e", "LF">>]}
\* the thresholds the application sets, and those it constructs with (0: falsy,
\* the default applies)
TriggerLevels == {LevelNo("DEBUG"), LevelNo("WARNING"), LevelNo("ERROR")}
ConstructLevels == {0, LevelNo("DEBUG")}
Intervals == {1, DefaultFlushInterval}
Outcomes == {"ok", "false", "raise"}

\* the threads of the application that call logger.remove, and a thread that
\* is in no such call
Threads == {"t1", "t2"}
Idle == [pc |-> "idle", handler_id |-> 0]

\* what the application logs through the logging module: the level name and
\* number of the LogRecord, a name loguru knows and one it does not
LegacyInputs ==
    {[levelname |-> "ERROR", levelno |-> 40],
     [levelname |-> "CUSTOM", levelno |-> 35]}

\* File names of frames, as the parts of their resolved paths: this module, the
\* logging package, a helper of the JetBrains debugger, code compiled from a
\* string (python -c, exec) and the application's script.
CURRENT_FILENAME == <<"usr", "lib", "python3", "site-packages", "logprise", "__init__.py">>
LOGGING_FILENAMES == {<<"usr", "lib", "python3", "logging">>}
LoggingFile == <<"usr", "lib", "python3", "logging", "__init__.py">>
HelperFile == <<"opt", "jetbrains", "intellij", "helpers", "pydevd.py">>
StringFile == <<"home", "app", "<string>">>
AppFile == <<"home", "app", "main.py">>

\* The call stacks at logging.currentframe() in emit, innermost frame first and
\* the outermost frame last: a logging call of the application's script, one made
\* under the debugger's helper, one of code the script runs with exec, and one of
\* top-level code given with python -c.
AppStack == <<CURRENT_FILENAME, LoggingFile, LoggingFile, AppFile>>
Stacks ==
    {AppStack,
     <<CURRENT_FILENAME, LoggingFile, HelperFile, AppFile, AppFile>>,
     <<CURRENT_FILENAME, LoggingFile, StringFile, AppFile>>,
     <<CURRENT_FILENAME, LoggingFile, LoggingFile, StringFile>>}

VARIABLES
    ninst,            \* number of Appriser objects constructed so far
    level,            \* level[i]: _notification_level
    interval,         \* interval[i]: _flush_interval
    buffer,           \* buffer[i]: the list self.buffer
    stop_event,       \* stop_event[i]: the flag of self._stop_event
    cur,              \* cur[i]: state of the thread self._flush_thread refers to
    stale,            \* stale[i]: live flush threads self._flush_thread no longer refers to
    handlers,         \* logger._core.handlers: set of [id, sink]
    next_id,          \* the next handler id loguru hands out
    accumulator_id,   \* Appriser._accumulator_id
    remove_self,      \* the instance bound in the installed _new_remove closure
    sys_hook,         \* sys.excepthook
    thr_hook,         \* threading.excepthook
    exit_flag,        \* Appriser._exit_via_unhandled_exception
    nrec,             \* number of log records created so far
    submitted,        \* submitted[i]: ids of the records apprise accepted from i
    unsent,           \* unsent[i]: ids of the records in the buffer of i at a failed
                      \* delivery attempt made since its last accepted delivery
    legacy,           \* the logging.LogRecord objects created, in order
    removing,         \* removing[t]: where thread t is in a call of logger.remove
    log_method,       \* logging.Logger._log: the wrappers around the original
                      \* method, and whether it carries _intercepted_by_logprise
    op                \* the operation that made the last step, and what it did

vars == <<ninst, level, interval, buffer, stop_event, cur, stale, handlers, next_id,
          accumulator_id, remove_self, sys_hook, thr_hook, exit_flag, nrec,
          submitted, unsent, legacy, removing, log_method, op>>


\* The variables as one record, so that an operation is an operator from
\* state to state and a handler is the composition of the calls it makes.
State ==
    [ninst |-> ninst, level |-> level, interval |-> interval, buffer |-> buffer,
     stop_event |-> stop_event, cur |-> cur, stale |-> stale, handlers |-> handlers,
     next_id |-> next_id, accumulator_id |-> accumulator_id,
     remove_self |-> remove_self, sys_hook |-> sys_hook, thr_hook |-> thr_hook,
     exit_flag |-> exit_flag, nrec |-> nrec, submitted |-> submitted,
     unsent |-> unsent, legacy |-> legacy, removing |-> removing,
     log_method |-> log_method, op |-> op]

Commit(s) ==
    /\ ninst' = s.ninst
    /\ level' = s.level
    /\ interval' = s.interval
    /\ buffer' = s.buffer
    /\ stop_event' = s.stop_event
    /\ cur' = s.cur
    /\ stale' = s.stale
    /\ handlers' = s.handlers
    /\ next_id' = s.next_id
    /\ accumulator_id' = s.accumulator_id
    /\ remove_self' = s.remove_self
    /\ sys_hook' = s.sys_hook
    /\ thr_hook' = s.thr_hook
    /\ exit_flag' = s.exit_flag
    /\ nrec' = s.nrec
    /\ submitted' = s.submitted
    /\ unsent' = s.unsent
    /\ legacy' = s.legacy
    /\ removing' = s.removing
    /\ log_method' = s.log_method
    /\ op' = s.op

\* What the last step did: the operation, the instance it was called on (0: none),
\* its argument, the send_notification calls it made (by instance, in order), the
\* calls it made to apprise_obj.notify, how often it called the original hook
\* and how many send_notification calls it had made when it did, how many
\* records it forwarded from logging to loguru, whether the flush thread was
\* not alive when it changed the interval, how often it called loguru's own
\* remove, and the exception it raised ("none": it returned).
NewOp(name, i, arg) ==
    [name |-> name, inst |-> i, arg |-> arg, sends |-> <<>>, notify |-> <<>>,
     chained |-> 0, sent_before |-> 0, forwarded |-> 0, was_stopped |-> FALSE,
     originals |-> 0, raised |-> "none"]

\* the operation raises: the exception leaves it, naming its type
Raise(s, exception) == [s EXCEPT !.op.raised = exception]

Begin(s, name, i, arg) == [s EXCEPT !.op = NewOp(name, i, arg)]

\* ------------------------------------------------------------ flush threads
\* A flush thread: where it is in _periodic_flush ("wait": in
\* self._stop_event.wait, "notify": inside apprise_obj.notify), the buffer its
\* body was joined from, and whether it was started before flush_interval was
\* last changed.
NoThread == [pc |-> "none", snap |-> <<>>, old |-> FALSE]
Waiting == [pc |-> "wait", snap |-> <<>>, old |-> FALSE]

Live(s, i) == (IF s.cur[i].pc = "none" THEN 0 ELSE 1) + Len(s.stale[i])

\* ------------------------------------------------------------------ records
Ids(buf) == [k \in 1..Len(buf) |-> buf[k].id]
IdSet(buf) == {buf[k].id : k \in 1..Len(buf)}

\* "".join(self.buffer)
RECURSIVE Join(_)
Join(buf) == IF buf = <<>> THEN <<>> ELSE Head(buf).text \o Join(Tail(buf))

\* .replace("\r", "")
StripCR(str) == SelectSeq(str, LAMBDA c : c # "CR")

\* accumulate_log with the boundary excluded
accumulate_log_above(s, i, message) ==
    IF message.level > s.level[i]
    THEN [s EXCEPT !.buffer[i] = Append(@, message)]
    ELSE s

\* Appriser.accumulate_log
accumulate_log(s, i, message) ==
    IF message.level >= s.level[i]
    THEN [s EXCEPT !.buffer[i] = Append(@, message)]
    ELSE s

\* loguru calls every registered sink with the message, in handler order; a sink
\* that is not an accumulator (sink 0) leaves the model's state alone.
MinId(hs) == CHOOSE h \in hs : \A g \in hs : h.id <= g.id

RECURSIVE Emit(_, _, _)
Emit(s, hs, message) ==
    IF hs = {} THEN s
    ELSE LET h == MinId(hs)
             s1 == IF h.sink = 0 THEN s ELSE accumulate_log(s, h.sink, message)
         IN Emit(s1, hs \ {h}, message)

\* logger.debug / warning / error / log: a record is created and emitted. Only a
\* record some buffer keeps needs an identity, so only such a record takes an id.
LoggerLog(s, lvl, kind, text) ==
    LET message == [id |-> s.nrec + 1, level |-> lvl, kind |-> kind, text |-> text]
        s1 == Emit(s, s.handlers, message)
    IN IF s1.buffer = s.buffer THEN s ELSE [s1 EXCEPT !.nrec = @ + 1]

\* ---------------------------------------------------------- InterceptHandler
\* "sub in filename", on the parts of the two paths
Contains(filename, sub) ==
    \E k \in 0..(Len(filename) - Len(sub)) :
        SubSeq(filename, k + 1, k + Len(sub)) = sub

\* InterceptHandler._should_ignore_this_frame, of the frame's file name
_should_ignore_this_frame(filename) ==
    IF filename = CURRENT_FILENAME THEN TRUE
    ELSE IF Contains(filename, <<"jetbrains", "intellij">>) THEN TRUE
    ELSE IF filename[Len(filename)] = "<string>" THEN TRUE
    ELSE \E skip_path \in LOGGING_FILENAMES : Contains(filename, skip_path)

\* The loop of emit that finds the caller: frames is what is left of the stack
\* from the frame looked at outwards. f_back of the outermost frame is None, and
\* _should_ignore_this_frame(None) raises AttributeError.
RECURSIVE caller_depth(_, _)
caller_depth(frames, depth) ==
    IF frames = <<>> THEN [raised |-> "AttributeError", depth |-> depth]
    ELSE IF _should_ignore_this_frame(Head(frames))
    THEN caller_depth(Tail(frames), depth + 1)
    ELSE [raised |-> "none", depth |-> depth]

\* emit forwarding whether or not the record carries the marker
emit_unguarded(s, r) ==
    LET record == s.legacy[r]
        lvl == IF record.levelname \in LevelNames THEN LevelNo(record.levelname)
               ELSE record.levelno
        s1 == [s EXCEPT !.legacy[r].handled = TRUE, !.legacy[r].forwards = @ + 1,
                        !.op.forwarded = @ + 1]
    IN LoggerLog(s1, lvl, "legacy", <<"l", "LF">>)

\* emit letting the ValueError of logger.level leave it
emit_unknown_raises(s, r) ==
    LET record == s.legacy[r]
        s1 == [s EXCEPT !.legacy[r].handled = TRUE]
        s2 == [s1 EXCEPT !.legacy[r].forwards = @ + 1, !.op.forwarded = @ + 1]
    IN IF record.handled THEN s
       ELSE IF record.levelname \in LevelNames
       THEN LoggerLog(s2, LevelNo(record.levelname), "legacy", <<"l", "LF">>)
       ELSE Raise(s1, "ValueError")

\* InterceptHandler.emit(record), for the r-th LogRecord: a record that carries
\* the marker is left alone; another is marked and logged through loguru, at
\* the loguru level of its name or, when loguru knows no such name, at its number
emit(s, r) ==
    LET record == s.legacy[r]
        lvl == IF record.levelname \in LevelNames THEN LevelNo(record.levelname)
               ELSE record.levelno
        marked == [s EXCEPT !.legacy[r].handled = TRUE]
        caller == caller_depth(record.stack, 0)
        s1 == [marked EXCEPT !.legacy[r].forwards = @ + 1,
                             !.legacy[r].depth = caller.depth,
                             !.op.forwarded = @ + 1]
    IN IF record.handled THEN s
       ELSE IF caller.raised # "none" THEN Raise(marked, caller.raised)
       ELSE LoggerLog(s1, lvl, "legacy", <<"l", "LF">>)

\* logging.LogRecord(...) made by a logging call with the given stack: a record
\* without the marker (depth -1: no caller was looked for yet)
LogRecordFrom(s, input, stack) ==
    [s EXCEPT !.legacy = Append(@, [levelname |-> input.levelname,
                                    levelno |-> input.levelno,
                                    handled |-> FALSE, forwards |-> 0,
                                    stack |-> stack, depth |-> -1])]

\* the record of a logging call of the application's script
LogRecord(s, input) == LogRecordFrom(s, input, AppStack)

\* ------------------------------------------------------------------ delivery
\* Appriser.send_notification up to the call of apprise_obj.notify: the empty
\* check and the body. "call" says whether notify is called, "snap" is the
\* buffer the body was joined from.
send_prepare(s, i) ==
    LET s0 == [s EXCEPT !.op.sends = Append(@, i)]
        buf == s0.buffer[i]
    IN IF buf = <<>>
       THEN [s |-> LoggerLog(s0, LevelNo("DEBUG"), "nologs", <<"n", "LF">>),
             call |-> FALSE, snap |-> <<>>]
       ELSE [s |-> s0, call |-> StripCR(Join(buf)) # <<>>, snap |-> buf]

\* the default of send_notification's title parameter
DefaultTitle == "Script Notifications"

\* send_finish handing the joined messages to notify as they are
send_finish_keep_cr(s, i, snap, outcome) ==
    LET call == [inst |-> i, ids |-> Ids(snap), body |-> Join(snap),
                 title |-> DefaultTitle, result |-> outcome,
                 whole |-> s.buffer[i] = snap,
                 retried |-> s.unsent[i] \cap IdSet(snap),
                 missed |-> s.unsent[i] \ IdSet(snap)]
        s1 == [s EXCEPT !.op.notify = Append(@, call)]
        failed == [s1 EXCEPT !.unsent[i] = @ \cup IdSet(s.buffer[i])]
    IN CASE outcome = "ok" ->
                [s1 EXCEPT !.buffer[i] = <<>>,
                           !.submitted[i] = @ \cup IdSet(snap),
                           !.unsent[i] = {}]
         [] outcome = "false" -> failed
         [] outcome = "raise" ->
                LoggerLog(failed, LevelNo("WARNING"), "failed", <<"f", "LF">>)

\* send_finish letting what notify raises leave send_notification
send_finish_propagate(s, i, snap, outcome) ==
    LET call == [inst |-> i, ids |-> Ids(snap), body |-> StripCR(Join(snap)),
                 title |-> DefaultTitle, result |-> outcome,
                 whole |-> s.buffer[i] = snap,
                 retried |-> s.unsent[i] \cap IdSet(snap),
                 missed |-> s.unsent[i] \ IdSet(snap)]
        s1 == [s EXCEPT !.op.notify = Append(@, call)]
        failed == [s1 EXCEPT !.unsent[i] = @ \cup IdSet(s.buffer[i])]
    IN CASE outcome = "ok" ->
                [s1 EXCEPT !.buffer[i] = <<>>,
                           !.submitted[i] = @ \cup IdSet(snap),
                           !.unsent[i] = {}]
         [] outcome = "false" -> failed
         [] outcome = "raise" -> Raise(failed, "Exception")

\* send_finish clearing the buffer whatever notify answers without raising
send_finish_clear_on_false(s, i, snap, outcome) ==
    LET call == [inst |-> i, ids |-> Ids(snap), body |-> StripCR(Join(snap)),
                 title |-> DefaultTitle, result |-> outcome,
                 whole |-> s.buffer[i] = snap,
                 retried |-> s.unsent[i] \cap IdSet(snap),
                 missed |-> s.unsent[i] \ IdSet(snap)]
        s1 == [s EXCEPT !.op.notify = Append(@, call)]
        failed == [s1 EXCEPT !.unsent[i] = @ \cup IdSet(s.buffer[i])]
    IN CASE outcome = "ok" ->
                [s1 EXCEPT !.buffer[i] = <<>>,
                           !.submitted[i] = @ \cup IdSet(snap),
                           !.unsent[i] = {}]
         [] outcome = "false" -> [failed EXCEPT !.buffer[i] = <<>>]
         [] outcome = "raise" ->
                LoggerLog(failed, LevelNo("WARNING"), "failed", <<"f", "LF">>)

\* Appriser.send_notification from the answer of apprise_obj.notify on: "ok"
\* (True), "false" (False) or "raise".
send_finish(s, i, snap, outcome) ==
    LET call == [inst |-> i, ids |-> Ids(snap), body |-> StripCR(Join(snap)),
                 title |-> DefaultTitle, result |-> outcome,
                 \* nothing was appended while notify ran
                 whole |-> s.buffer[i] = snap,
                 \* the records of failed attempts that this body holds, and
                 \* those it does not
                 retried |-> s.unsent[i] \cap IdSet(snap),
                 missed |-> s.unsent[i] \ IdSet(snap)]
        s1 == [s EXCEPT !.op.notify = Append(@, call)]
        failed == [s1 EXCEPT !.unsent[i] = @ \cup IdSet(s.buffer[i])]
    IN CASE outcome = "ok" ->
                [s1 EXCEPT !.buffer[i] = <<>>,
                           !.submitted[i] = @ \cup IdSet(snap),
                           !.unsent[i] = {}]
         [] outcome = "false" -> failed
         [] outcome = "raise" ->
                LoggerLog(failed, LevelNo("WARNING"), "failed", <<"f", "LF">>)

\* Appriser.send_notification, called and returning on one thread
send_notification(s, i, outcome) ==
    LET p == send_prepare(s, i)
    IN IF p.call THEN send_finish(p.s, i, p.snap, outcome) ELSE p.s

\* Appriser._start_periodic_flush: the flag is cleared and a new thread started;
\* self._flush_thread now refers to it, and a thread it referred to that is
\* still alive runs on unreferenced.
_start_periodic_flush(s, i) ==
    [s EXCEPT !.stop_event[i] = FALSE,
              !.stale[i] = IF s.cur[i].pc = "none" THEN @ ELSE Append(@, s.cur[i]),
              !.cur[i] = Waiting]

\* stop_periodic_flush joining the thread without setting the event
stop_periodic_flush_no_set(s, i) == s

\* Appriser.stop_periodic_flush: set() wakes every thread waiting on the event,
\* whose wait() then returns True and whose loop breaks. join(timeout=1.0)
\* returns with the thread still alive when it is inside a delivery that takes
\* longer than the timeout.
stop_periodic_flush(s, i) ==
    IF s.cur[i].pc # "none"
    THEN [s EXCEPT !.stop_event[i] = TRUE,
                   !.cur[i] = IF @.pc = "wait" THEN NoThread ELSE @,
                   !.stale[i] = SelectSeq(@, LAMBDA t : t.pc # "wait")]
    ELSE s

\* the flush_interval setter restarting the loop for the value it already has
set_flush_interval_always(s, i, value) ==
    LET s1 == _start_periodic_flush(
                  stop_periodic_flush([s EXCEPT !.interval[i] = value], i), i)
    IN [s1 EXCEPT !.stale[i] = [k \in 1..Len(@) |-> [@[k] EXCEPT !.old = TRUE]]]

\* the flush_interval setter leaving a loop that is not running as it is
set_flush_interval_if_running(s, i, value) ==
    IF s.interval[i] # value
    THEN IF s.cur[i].pc = "none"
         THEN [s EXCEPT !.interval[i] = value, !.op.was_stopped = TRUE]
         ELSE LET s1 == _start_periodic_flush(
                            stop_periodic_flush([s EXCEPT !.interval[i] = value], i), i)
              IN [s1 EXCEPT !.stale[i] = [k \in 1..Len(@) |-> [@[k] EXCEPT !.old = TRUE]]]
    ELSE s

\* Appriser.flush_interval setter, for a valid value
set_flush_interval(s, i, value) ==
    IF s.interval[i] # value
    THEN LET s1 == _start_periodic_flush(
                       stop_periodic_flush([s EXCEPT !.interval[i] = value], i), i)
         IN [s1 EXCEPT !.stale[i] = [k \in 1..Len(@) |-> [@[k] EXCEPT !.old = TRUE]],
                       !.op.was_stopped = (s.cur[i].pc = "none")]
    ELSE s

\* Appriser.notification_level setter, for an int
set_notification_level(s, i, value) == [s EXCEPT !.level[i] = value]

\* the flush_interval setter letting zero through
flush_interval_setter_nonnegative(s, i, value) ==
    IF value.type \notin {"int", "bool", "float"} \/ value.num < 0
    THEN Raise(s, "ValueError")
    ELSE set_flush_interval(s, i, value.num)

\* Appriser.flush_interval setter, for any value: "isinstance(value, int |
\* float)" holds of a bool as well
flush_interval_setter(s, i, value) ==
    IF value.type \notin {"int", "bool", "float"} \/ value.num <= 0
    THEN Raise(s, "ValueError")
    ELSE set_flush_interval(s, i, value.num)

\* the notification_level setter storing the number of a value of another type
notification_level_setter_coerce(s, i, value) ==
    CASE value.type \in {"int", "bool"} -> set_notification_level(s, i, value.num)
      [] value.type = "str" ->
            IF value.name \in LevelNames
            THEN set_notification_level(s, i, LevelNo(value.name))
            ELSE Raise(s, "ValueError")
      [] value.type = "Level" -> set_notification_level(s, i, value.num)
      [] OTHER -> set_notification_level(s, i, value.num)

\* Appriser.notification_level setter, for any value: logger.level(name) raises
\* ValueError for a name that is not in loguru's table
notification_level_setter(s, i, value) ==
    CASE value.type \in {"int", "bool"} -> set_notification_level(s, i, value.num)
      [] value.type = "str" ->
            IF value.name \in LevelNames
            THEN set_notification_level(s, i, LevelNo(value.name))
            ELSE Raise(s, "ValueError")
      [] value.type = "Level" -> set_notification_level(s, i, value.num)
      [] OTHER -> Raise(s, "TypeError")

\* cleanup delivering whatever the exit flag says
cleanup_always_send(s, i, outcome) ==
    send_notification(stop_periodic_flush(s, i), i, outcome)

\* Appriser.cleanup
cleanup(s, i, outcome) ==
    LET s1 == stop_periodic_flush(s, i)
    IN IF ~s1.exit_flag THEN send_notification(s1, i, outcome) ELSE s1

\* ------------------------------------------------------------ exception hooks
\* A hook is the chain of Appriser wrappers around a hook that is not one: the
\* wrappers are functools.partial objects, outermost first, each bound to the
\* instance named; the base is the interpreter's default or a user's function.
BaseHook(base) == [wrappers |-> <<>>, base |-> base]

\* The hooks in place before the import: the interpreter's own ("stdlib"), a
\* function of the application's script ("user"), a function of an installed
\* package ("site"), a functools.partial of a function of the application
\* ("partial"), and a function of a __main__ that has no file ("interactive");
\* a function of an installed package under dist-packages ("dist"), of an
\* installed back-port ("backport"), of a standard-library module that has a
\* file ("stdlibfile"), of a module that lies in the standard-library directory
\* without being part of the library ("sitecustomize"), of a module of the
\* application that has the name of a standard-library module ("shadow"), and
\* a function made from a code object, for which no module is found
\* ("nomodule").
HookBases ==
    {"stdlib", "user", "site", "partial", "interactive",
     "dist", "backport", "stdlibfile", "sitecustomize", "shadow", "nomodule"}

StdlibModuleNames == {"sys", "_thread", "threading", "functools", "traceback", "queue"}
_STDLIB_BACKPORTS ==
    {"exceptiongroup", "importlib_metadata", "importlib_resources",
     "typing_extensions", "tomli"}
StdlibPath == <<"usr", "lib", "python3">>

IsRelativeTo(path, base) ==
    Len(base) <= Len(path) /\ SubSeq(path, 1, Len(base)) = base

\* What inspect.getmodule(hook) and hook.__module__ give: whether a module is
\* found, its top-level package, and the parts of its __file__ (<<>>: none).
HookModule(hook) ==
    IF hook.wrappers # <<>> \/ hook.base = "partial"
    THEN [found |-> TRUE, top |-> "functools",
          file |-> <<"usr", "lib", "python3", "functools.py">>]
    ELSE IF hook.base = "stdlib"
    THEN [found |-> TRUE, top |-> "sys", file |-> <<>>]
    ELSE IF hook.base = "interactive"
    THEN [found |-> TRUE, top |-> "__main__", file |-> <<>>]
    ELSE IF hook.base = "site"
    THEN [found |-> TRUE, top |-> "pkg",
          file |-> <<"usr", "lib", "python3", "site-packages", "pkg", "hooks.py">>]
    ELSE IF hook.base = "dist"
    THEN [found |-> TRUE, top |-> "pkg",
          file |-> <<"usr", "lib", "python3", "dist-packages", "pkg", "hooks.py">>]
    ELSE IF hook.base = "backport"
    THEN [found |-> TRUE, top |-> "exceptiongroup",
          file |-> <<"usr", "lib", "python3", "site-packages", "exceptiongroup",
                     "_formatting.py">>]
    ELSE IF hook.base = "stdlibfile"
    THEN [found |-> TRUE, top |-> "traceback",
          file |-> <<"usr", "lib", "python3", "traceback.py">>]
    ELSE IF hook.base = "sitecustomize"
    THEN [found |-> TRUE, top |-> "sitecustomize",
          file |-> <<"usr", "lib", "python3", "sitecustomize.py">>]
    ELSE IF hook.base = "shadow"
    THEN [found |-> TRUE, top |-> "queue", file |-> <<"home", "app", "queue.py">>]
    ELSE IF hook.base = "nomodule"
    THEN [found |-> FALSE, top |-> "", file |-> <<>>]
    ELSE [found |-> TRUE, top |-> "__main__", file |-> <<"home", "app", "main.py">>]

\* "site-packages" in module_path.parts or "dist-packages" in module_path.parts
InSitePackages(file) ==
    \E k \in 1..Len(file) : file[k] \in {"site-packages", "dist-packages"}

\* _is_method_in_stdlib looking at the path of the file before the name
_is_method_in_stdlib_path_first(m) ==
    IF ~m.found THEN FALSE
    ELSE IF m.file = <<>> THEN TRUE
    ELSE IF InSitePackages(m.file) THEN FALSE
    ELSE IF m.top \in StdlibModuleNames \/ m.top \in _STDLIB_BACKPORTS THEN TRUE
    ELSE IsRelativeTo(m.file, StdlibPath)

\* Appriser._is_method_in_stdlib
_is_method_in_stdlib(m) ==
    IF ~m.found THEN FALSE
    ELSE IF m.top \in StdlibModuleNames \/ m.top \in _STDLIB_BACKPORTS THEN TRUE
    ELSE IF m.file = <<>> THEN TRUE
    ELSE IF \E k \in 1..Len(m.file) : m.file[k] \in {"site-packages", "dist-packages"}
    THEN FALSE
    ELSE IsRelativeTo(m.file, StdlibPath)

\* the loop of _setup_sys_exception_hook / _setup_threading_exception_hook
RECURSIVE Unwrap(_)
Unwrap(hook) ==
    IF hook.wrappers # <<>>
    THEN Unwrap([hook EXCEPT !.wrappers = Tail(@)])
    ELSE hook

Wrap(i, hook) == [hook EXCEPT !.wrappers = <<i>> \o @]

\* _setup_sys_exception_hook wrapping the hook it finds, whatever it is
_setup_sys_exception_hook_nested(s, i) ==
    [s EXCEPT !.sys_hook = Wrap(i, s.sys_hook)]

\* Appriser._setup_sys_exception_hook
_setup_sys_exception_hook(s, i) ==
    [s EXCEPT !.sys_hook = Wrap(i, Unwrap(s.sys_hook))]

\* Appriser._setup_threading_exception_hook
_setup_threading_exception_hook(s, i) ==
    [s EXCEPT !.thr_hook = Wrap(i, Unwrap(s.thr_hook))]

\* Appriser._handle_uncaught_sys_exception and
\* Appriser._handle_uncaught_threading_exception, for the instance bound in the
\* wrapper and the original hook bound with it. A hook that is not a wrapper
\* (CallHook with no wrapper left) is the user's or the interpreter's own: it
\* changes nothing of the model but the count of its calls.
RECURSIVE CallHook(_, _, _), _handle_uncaught_exception(_, _, _, _)
CallHook(s, hook, outcome) ==
    IF hook.wrappers = <<>>
    THEN [s EXCEPT !.op.chained = @ + 1, !.op.sent_before = Len(s.op.sends)]
    ELSE _handle_uncaught_exception(s, Head(hook.wrappers),
                                    [hook EXCEPT !.wrappers = Tail(@)], outcome)

\* the handler without its call of send_notification
_handle_uncaught_exception_no_send(s, i, original_excepthook, outcome) ==
    LET s1 == LoggerLog(s, LevelNo("ERROR"), "uncaught", <<"u", "LF">>)
        s2 == [s1 EXCEPT !.exit_flag = TRUE]
    IN IF ~_is_method_in_stdlib(HookModule(original_excepthook))
       THEN CallHook(s2, original_excepthook, outcome)
       ELSE s2

\* the handler delivering before it logs the exception
_handle_uncaught_exception_send_first(s, i, original_excepthook, outcome) ==
    LET s1 == send_notification(s, i, outcome)
        s2 == LoggerLog(s1, LevelNo("ERROR"), "uncaught", <<"u", "LF">>)
        s3 == [s2 EXCEPT !.exit_flag = TRUE]
    IN IF ~_is_method_in_stdlib(HookModule(original_excepthook))
       THEN CallHook(s3, original_excepthook, outcome)
       ELSE s3

_handle_uncaught_exception(s, i, original_excepthook, outcome) ==
    LET s1 == LoggerLog(s, LevelNo("ERROR"), "uncaught", <<"u", "LF">>)
        s2 == [s1 EXCEPT !.exit_flag = TRUE]
        s3 == send_notification(s2, i, outcome)
    IN IF ~_is_method_in_stdlib(HookModule(original_excepthook))
       THEN CallHook(s3, original_excepthook, outcome)
       ELSE s3

\* ------------------------------------------------------------------- sinks
HandlerIds(s) == {h.id : h \in s.handlers}

\* logger.add(sink): the handler gets the next id, which is returned
logger_add(s, sink) ==
    [s EXCEPT !.handlers = @ \cup {[id |-> s.next_id, sink |-> sink]},
              !.next_id = @ + 1]

\* loguru's own remove: every handler (handler_id None, here -1) or the one named
_old_logger_remove(s, handler_id) ==
    IF handler_id = -1
    THEN [s EXCEPT !.handlers = {}, !.op.originals = @ + 1]
    ELSE [s EXCEPT !.handlers = {h \in @ : h.id # handler_id},
                   !.op.originals = @ + 1]

\* _new_remove registering the accumulator again without looking for its handle
_new_remove_always(s, handler_id) ==
    LET s1 == _old_logger_remove(s, handler_id)
    IN [logger_add(s1, s1.remove_self) EXCEPT !.accumulator_id = s1.next_id]

\* the closure _new_remove that _setup_removal_prevention installs, bound to the
\* instance that installed it last
_new_remove(s, handler_id) ==
    LET s1 == _old_logger_remove(s, handler_id)
    IN IF s1.accumulator_id \notin HandlerIds(s1)
       THEN [logger_add(s1, s1.remove_self) EXCEPT !.accumulator_id = s1.next_id]
       ELSE s1

\* _new_remove as a thread runs it, in the steps another thread can come
\* between: loguru's own remove has returned; the handlers were searched for
\* Appriser._accumulator_id; logger.add has returned and its handle is stored.
remove_begin(s, t, handler_id) ==
    [_old_logger_remove(s, handler_id)
        EXCEPT !.removing[t] = [pc |-> "removed", handler_id |-> handler_id]]

remove_check(s, t) ==
    IF s.accumulator_id \notin HandlerIds(s)
    THEN [s EXCEPT !.removing[t].pc = "add"]
    ELSE [s EXCEPT !.removing[t] = Idle]

remove_add(s, t) ==
    [logger_add(s, s.remove_self) EXCEPT !.accumulator_id = s.next_id,
                                         !.removing[t] = Idle]

\* Appriser._setup_removal_prevention
_setup_removal_prevention(s, i) ==
    [logger_add(s, i) EXCEPT !.remove_self = i, !.accumulator_id = s.next_id]

\* ------------------------------------------------------------ construction
\* _setup_interception_handler wrapping the method whether or not it is marked
_setup_interception_handler_unmarked(s, i) ==
    [s EXCEPT !.log_method = [wrappers |-> @.wrappers + 1, intercepted |-> TRUE]]

\* Appriser._setup_interception_handler: logging.Logger._log is wrapped in
\* new_log_method, which is marked, unless the method in place is marked
_setup_interception_handler(s, i) ==
    IF s.log_method.intercepted THEN s
    ELSE [s EXCEPT !.log_method = [wrappers |-> @.wrappers + 1, intercepted |-> TRUE]]

\* Appriser.__init__ of the i-th object, with an integer trigger level (0 is
\* falsy: "apprise_trigger_level or 'ERROR'") and a valid flush interval.
\* Its first lines: the thread, the event and the default level.
_init_fields(s, i) ==
    [s EXCEPT !.ninst = i,
              !.cur[i] = NoThread,
              !.stop_event[i] = FALSE,
              !.level[i] = LevelNo("ERROR")]

\* Its lines from the flush interval on.
_init_rest(s, i, flush_interval) ==
    LET s3 == set_flush_interval([s EXCEPT !.interval[i] = DefaultFlushInterval],
                                 i, flush_interval)
        s4 == _setup_interception_handler([s3 EXCEPT !.buffer[i] = <<>>], i)
        s5 == _setup_sys_exception_hook(s4, i)
        s6 == _setup_threading_exception_hook(s5, i)
        s7 == _start_periodic_flush(s6, i)
    IN _setup_removal_prevention(s7, i)

__init__(s, i, apprise_trigger_level, flush_interval) ==
    LET s2 == set_notification_level(_init_fields(s, i), i,
                  IF apprise_trigger_level = 0 THEN LevelNo("ERROR")
                  ELSE apprise_trigger_level)
    IN _init_rest(s2, i, flush_interval)

\* Appriser.__init__ of the i-th object with a trigger level of any type: a
\* falsy value gives way to "ERROR", and an exception of the setter leaves the
\* constructor before anything is installed.
init_with(s, i, apprise_trigger_level, flush_interval) ==
    LET value == IF Truthy(apprise_trigger_level) THEN apprise_trigger_level
                 ELSE StrVal("ERROR")
        s2 == notification_level_setter(_init_fields(s, i), i, value)
    IN IF s2.op.raised # "none"
       THEN Raise(s, s2.op.raised)
       ELSE _init_rest(s2, i, flush_interval)

\* The process before logprise is imported: loguru's default handler (id 0,
\* stderr) is registered and the exception hooks are the interpreter's or the
\* application's.
Blank(sys_base, thr_base) ==
    [ninst |-> 0,
     level |-> [i \in Inst |-> 0],
     interval |-> [i \in Inst |-> 0],
     buffer |-> [i \in Inst |-> <<>>],
     stop_event |-> [i \in Inst |-> FALSE],
     cur |-> [i \in Inst |-> NoThread],
     stale |-> [i \in Inst |-> <<>>],
     handlers |-> {[id |-> 0, sink |-> 0]},
     next_id |-> 1,
     accumulator_id |-> -1,
     remove_self |-> 0,
     sys_hook |-> BaseHook(sys_base),
     thr_hook |-> BaseHook(thr_base),
     exit_flag |-> FALSE,
     nrec |-> 0,
     submitted |-> [i \in Inst |-> {}],
     unsent |-> [i \in Inst |-> {}],
     legacy |-> <<>>,
     removing |-> [t \in Threads |-> Idle],
     log_method |-> [wrappers |-> 0, intercepted |-> FALSE],
     op |-> NewOp("import", 1, 0)]

\* "appriser = Appriser()" at the end of the module: the state after import
Imported(sys_base, thr_base) ==
    __init__(Blank(sys_base, thr_base), 1, LevelNo("ERROR"), DefaultFlushInterval)

InitFrom(s) ==
    /\ ninst = s.ninst
    /\ level = s.level
    /\ interval = s.interval
    /\ buffer = s.buffer
    /\ stop_event = s.stop_event
    /\ cur = s.cur
    /\ stale = s.stale
    /\ handlers = s.handlers
    /\ next_id = s.next_id
    /\ accumulator_id = s.accumulator_id
    /\ remove_self = s.remove_self
    /\ sys_hook = s.sys_hook
    /\ thr_hook = s.thr_hook
    /\ exit_flag = s.exit_flag
    /\ nrec = s.nrec
    /\ submitted = s.submitted
    /\ unsent = s.unsent
    /\ legacy = s.legacy
    /\ removing = s.removing
    /\ log_method = s.log_method
    /\ op = s.op

Init == \E b \in {"stdlib", "user"} : InitFrom(Imported(b, b))

\* ---------------------------------------------------------------- actions
\* The bounds of the model: an operation that would pass one is not taken.
Within(s) ==
    /\ s.nrec <= MaxRecords
    /\ Len(s.legacy) <= MaxRecords
    /\ s.next_id <= MaxHandlerId + 1
    /\ \A i \in Inst : Live(s, i) <= MaxThreads

Step(s) == Within(s) /\ Commit(s)

\* the instances constructed so far, and those the application constructed
\* itself (instance 1 is the module's own "appriser")
Made == 1..ninst
Own == 2..ninst

\* Appriser(apprise_trigger_level=lvl, flush_interval=ivl), while fewer than N
\* instances exist
Construct(N, Lvls, Ivls) ==
    \E lvl \in Lvls, ivl \in Ivls :
        /\ ninst < N
        /\ Step(__init__(Begin(State, "construct", ninst + 1, lvl), ninst + 1, lvl, ivl))

\* Appriser(apprise_trigger_level=value), while fewer than N instances exist
ConstructWith(N) ==
    \E value \in LevelValues :
        /\ ninst < N
        /\ Step(init_with(Begin(State, "construct_with", ninst + 1, value),
                          ninst + 1, value, DefaultFlushInterval))

\* appriser.notification_level = value, for a value of any type
AssignNotificationLevel(I) ==
    \E i \in I, value \in LevelValues :
        Step(notification_level_setter(Begin(State, "assign_level", i, value),
                                       i, value))

\* appriser.flush_interval = value, for a value of any type
AssignFlushInterval(I) ==
    \E i \in I, value \in IntervalValues :
        Step(flush_interval_setter(Begin(State, "assign_interval", i, value),
                                   i, value))

\* logger.log(level, text) by the application
Log ==
    \E m \in LogInputs :
        Step(LoggerLog(Begin(State, "log", 0, m.level), m.level, "app", m.text))

\* a logger of the logging module handles a new record: its InterceptHandler's
\* emit is called with it
LoggingLog ==
    \E input \in LegacyInputs :
        Step(emit(LogRecord(Begin(State, "logging_log", 0, Len(legacy) + 1), input),
                  Len(legacy) + 1))

\* the same for a logging call made with any of the stacks
LoggingLogFrom ==
    \E input \in LegacyInputs, stack \in Stacks :
        Step(emit(LogRecordFrom(Begin(State, "logging_from", 0, Len(legacy) + 1),
                                input, stack),
                  Len(legacy) + 1))

\* emit is called again with a record made before, by the same handler or by
\* the InterceptHandler of another logger the record propagates to
HandlerEmit ==
    \E r \in 1..Len(legacy) : Step(emit(Begin(State, "emit", 0, r), r))

\* appriser.notification_level = value
SetNotificationLevel(I) ==
    \E i \in I, value \in TriggerLevels :
        Step(set_notification_level(Begin(State, "set_level", i, value), i, value))

\* appriser.flush_interval = value
SetFlushInterval(I) ==
    \E i \in I, value \in Intervals :
        Step(set_flush_interval(Begin(State, "set_interval", i, value), i, value))

\* appriser.send_notification()
SendNotification(I) ==
    \E i \in I, outcome \in Outcomes :
        Step(send_notification(Begin(State, "send", i, 0), i, outcome))

\* appriser.stop_periodic_flush()
StopPeriodicFlush(I) ==
    \E i \in I : Step(stop_periodic_flush(Begin(State, "stop", i, 0), i))

\* appriser.cleanup(), by the application or by atexit
Cleanup(I) ==
    \E i \in I, outcome \in Outcomes :
        Step(cleanup(Begin(State, "cleanup", i, 0), i, outcome))

\* logger.remove() and logger.remove(handler_id) for a registered handler
LoggerRemove ==
    \E handler_id \in {-1} \cup HandlerIds(State) :
        Step(_new_remove(Begin(State, "remove", 0, handler_id), handler_id))

\* logger.remove() and logger.remove(handler_id) called by a thread while
\* another thread may be in a call of its own
RemoveBegin ==
    \E t \in Threads, handler_id \in {-1} \cup HandlerIds(State) :
        /\ removing[t].pc = "idle"
        /\ Step(remove_begin(Begin(State, "remove_begin", 0, handler_id), t, handler_id))

RemoveCheck ==
    \E t \in Threads :
        /\ removing[t].pc = "removed"
        /\ Step(remove_check(Begin(State, "remove_check", 0, removing[t].handler_id), t))

RemoveAdd ==
    \E t \in Threads :
        /\ removing[t].pc = "add"
        /\ Step(remove_add(Begin(State, "remove_add", 0, removing[t].handler_id), t))

\* logger.add(sink) for a sink of the application
LoggerAdd == Step(logger_add(Begin(State, "add", 0, next_id), 0))

HookInst(hook) == IF hook.wrappers = <<>> THEN 0 ELSE Head(hook.wrappers)

\* the interpreter calls sys.excepthook with an uncaught exception
SysExcepthook ==
    \E outcome \in Outcomes :
        Step(CallHook(Begin(State, "sys_excepthook", HookInst(sys_hook), 0),
                      sys_hook, outcome))

\* a thread dies of an uncaught exception: threading.excepthook is called
ThreadingExcepthook ==
    \E outcome \in Outcomes :
        Step(CallHook(Begin(State, "threading_excepthook", HookInst(thr_hook), 0),
                      thr_hook, outcome))

\* The flush threads of instance i: 0 is the one self._flush_thread refers to,
\* k >= 1 the k-th unreferenced one.
ThreadAt(s, i, k) == IF k = 0 THEN s.cur[i] ELSE s.stale[i][k]

Drop(seq, k) == SubSeq(seq, 1, k - 1) \o SubSeq(seq, k + 1, Len(seq))

SetThread(s, i, k, t) ==
    IF k = 0 THEN [s EXCEPT !.cur[i] = t]
    ELSE IF t.pc = "none" THEN [s EXCEPT !.stale[i] = Drop(@, k)]
    ELSE [s EXCEPT !.stale[i][k] = t]

\* Appriser._periodic_flush: the wait timed out with the flag clear, and
\* send_notification runs up to the call of apprise_obj.notify
flush_timeout(s, i, k) ==
    LET p == send_prepare(s, i)
        t == ThreadAt(s, i, k)
    IN IF p.call
       THEN SetThread(p.s, i, k, [t EXCEPT !.pc = "notify", !.snap = p.snap])
       ELSE p.s

\* the loop going back to its wait without testing the flag
flush_notified_no_test(s, i, k, outcome) ==
    LET t == ThreadAt(s, i, k)
        s1 == send_finish(s, i, t.snap, outcome)
    IN SetThread(s1, i, k, [t EXCEPT !.pc = "wait", !.snap = <<>>])

\* Appriser._periodic_flush: notify answers, send_notification returns and the
\* loop tests the flag
flush_notified(s, i, k, outcome) ==
    LET t == ThreadAt(s, i, k)
        s1 == send_finish(s, i, t.snap, outcome)
    IN SetThread(s1, i, k,
                 IF s1.stop_event[i] THEN NoThread
                 ELSE [t EXCEPT !.pc = "wait", !.snap = <<>>])

FlushTimeout(I) ==
    \E i \in I, k \in 0..MaxThreads :
        /\ k <= Len(stale[i])
        /\ ThreadAt(State, i, k).pc = "wait"
        /\ ~stop_event[i]
        /\ Step(flush_timeout(Begin(State, "flush_timeout", i, k), i, k))

FlushNotified(I) ==
    \E i \in I, k \in 0..MaxThreads, outcome \in Outcomes :
        /\ k <= Len(stale[i])
        /\ ThreadAt(State, i, k).pc = "notify"
        /\ Step(flush_notified(Begin(State, "flush_notified", i, k), i, k, outcome))

\* The same calls when apprise accepts every delivery: notify answers True.
SendAccepted(I) ==
    \E i \in I : Step(send_notification(Begin(State, "send", i, 0), i, "ok"))

CleanupAccepted(I) ==
    \E i \in I : Step(cleanup(Begin(State, "cleanup", i, 0), i, "ok"))

SysExcepthookAccepted ==
    Step(CallHook(Begin(State, "sys_excepthook", HookInst(sys_hook), 0), sys_hook, "ok"))

FlushAccepted(I) ==
    \E i \in I, k \in 0..MaxThreads :
        /\ k <= Len(stale[i])
        /\ ThreadAt(State, i, k).pc = "notify"
        /\ Step(flush_notified(Begin(State, "flush_notified", i, k), i, k, "ok"))

Next ==
    \/ Construct(MaxInstances, ConstructLevels, Intervals)
    \/ Log
    \/ SetNotificationLevel(Made)
    \/ SetFlushInterval(Made)
    \/ SendNotification(Made)
    \/ StopPeriodicFlush(Made)
    \/ Cleanup(Made)
    \/ LoggerRemove
    \/ LoggerAdd
    \/ SysExcepthook
    \/ ThreadingExcepthook
    \/ FlushTimeout(Made)
    \/ FlushNotified(Made)
    \/ ConstructWith(MaxInstances)
    \/ AssignNotificationLevel(Made)
    \/ AssignFlushInterval(Made)
    \/ LoggingLog
    \/ HandlerEmit
    \/ RemoveBegin
    \/ RemoveCheck
    \/ RemoveAdd
    \/ LoggingLogFrom

\* Every operation on every instance. The specifications below are parts of it:
\* each takes the operations of one concern, and each of its behaviours is a
\* behaviour of Spec.
Spec == Init /\ [][Next]_vars

\* The process with the interpreter's own hooks in place before the import.
InitDefault == InitFrom(Imported("stdlib", "stdlib"))

\* Accumulation and delivery on the module's own instance, with its flush loop.
NextDelivery ==
    \/ Log
    \/ SetNotificationLevel(Made)
    \/ SendNotification(Made)
    \/ FlushTimeout(Made)
    \/ FlushNotified(Made)

SpecDelivery == InitDefault /\ [][NextDelivery]_vars

\* The sink table: constructions, logger.add, logger.remove and logging.
NextSinks ==
    \/ Construct(MaxInstances, ConstructLevels, {DefaultFlushInterval})
    \/ Log
    \/ LoggerRemove
    \/ LoggerAdd

SpecSinks == InitDefault /\ [][NextSinks]_vars

\* The crash path: constructions with the default arguments, logging, uncaught
\* exceptions and cleanup.
NextHooks ==
    \/ Construct(MaxInstances, {0}, {DefaultFlushInterval})
    \/ Log
    \/ SysExcepthook
    \/ ThreadingExcepthook
    \/ Cleanup(Made)

SpecHooks == Init /\ [][NextHooks]_vars

\* The flush scheduler of an instance the application constructs, at the
\* default trigger level: interval changes, stop, cleanup, logging and the steps
\* of its flush threads. The module's own instance is left alone and its
\* 3600 s wait does not time out; the scheduler of an instance shares nothing
\* with another's, so one constructed instance stands for each.
NextFlush ==
    \/ Construct(2, {0}, Intervals)
    \/ Log
    \/ SetFlushInterval(Own)
    \/ StopPeriodicFlush(Own)
    \/ Cleanup(Own)
    \/ FlushTimeout(Own)
    \/ FlushNotified(Own)

SpecFlush == InitDefault /\ [][NextFlush]_vars

\* Uncaught exceptions with any hook in place before the import: constructions
\* with the default arguments, logging and the two hooks.
InitHooks == \E b \in HookBases : InitFrom(Imported(b, b))

NextChain ==
    \/ Construct(MaxInstances, {0}, {DefaultFlushInterval})
    \/ Log
    \/ SysExcepthook
    \/ ThreadingExcepthook

SpecChain == InitHooks /\ [][NextChain]_vars

\* Uncaught exceptions at any threshold: the construction of one more
\* instance, which the hooks are then bound to, changes of its threshold,
\* logging, logger.remove and the two hooks.
NextCrash ==
    \/ Construct(2, {0}, {DefaultFlushInterval})
    \/ Log
    \/ SetNotificationLevel(Own)
    \/ LoggerRemove
    \/ SysExcepthook
    \/ ThreadingExcepthook

SpecCrash == InitDefault /\ [][NextCrash]_vars

\* Records of the logging module: new records, repeated emits, threshold
\* changes and logging through loguru.
NextLegacy ==
    \/ LoggingLog
    \/ HandlerEmit
    \/ SetNotificationLevel(Made)
    \/ Log

SpecLegacy == InitDefault /\ [][NextLegacy]_vars

\* The caller of a record of the logging module: logging calls made with every
\* stack, repeated emits and threshold changes.
NextFrames ==
    \/ LoggingLogFrom
    \/ HandlerEmit
    \/ SetNotificationLevel(Made)

SpecFrames == InitDefault /\ [][NextFrames]_vars

\* Failing deliveries on every path: manual calls, the flush loop and the two
\* hooks, with the interpreter's or the application's hook in place before.
NextFailure ==
    \/ Log
    \/ SendNotification(Made)
    \/ FlushTimeout(Made)
    \/ FlushNotified(Made)
    \/ SysExcepthook
    \/ ThreadingExcepthook

SpecFailure == Init /\ [][NextFailure]_vars

\* logger.remove called by two threads at a time, and logging.
NextRemovers ==
    \/ RemoveBegin
    \/ RemoveCheck
    \/ RemoveAdd
    \/ Log

SpecRemovers == InitDefault /\ [][NextRemovers]_vars

\* Deliveries from several threads when none fails: the flush loop, a manual
\* send_notification, cleanup and the hook of an uncaught exception, each on a
\* thread of its own, so that the calling threads act while the flush thread is
\* inside apprise_obj.notify.
NextConcurrent ==
    \/ Log
    \/ FlushTimeout(Made)
    \/ FlushAccepted(Made)
    \/ SendAccepted(Made)
    \/ CleanupAccepted(Made)
    \/ SysExcepthookAccepted

SpecConcurrent == InitDefault /\ [][NextConcurrent]_vars

\* The flush loop alone on an instance the application constructs: logging and
\* the steps of its flush threads, nothing called on the instance.
NextPeriodic ==
    \/ Construct(2, {0}, Intervals)
    \/ Log
    \/ FlushTimeout(Own)
    \/ FlushNotified(Own)

SpecPeriodic == InitDefault /\ [][NextPeriodic]_vars

\* The trigger level: the construction of one more instance with a value of
\* any type, assignments of any value to notification_level, and logging.
NextLevels ==
    \/ ConstructWith(2)
    \/ AssignNotificationLevel(Made)
    \/ Log

SpecLevels == InitDefault /\ [][NextLevels]_vars

\* The flush interval of the module's own instance: assignments of any value
\* to flush_interval, logging and the steps of its flush threads.
NextIntervals ==
    \/ AssignFlushInterval(Made)
    \/ Log
    \/ FlushTimeout(Made)
    \/ FlushNotified(Made)

SpecIntervals == InitDefault /\ [][NextIntervals]_vars

\* ------------------------------------------------------------------ claims
Last(seq) == seq[Len(seq)]
Accumulators == {h \in handlers : h.sink # 0}
Registrations(i) == Cardinality({h \in handlers : h.sink = i})
IsHookOp == op.name \in {"sys_excepthook", "threading_excepthook"}
Elems(seq) == {seq[k] : k \in 1..Len(seq)}

\* C1: a record the application logs is appended to the buffer of an instance
\* whose accumulator is registered if and only if its rank is at least the
\* instance's notification_level at that moment: the buffer gains exactly that
\* record at its end, or is left as it was.
C1_AccumulateAtOrAboveThreshold ==
    [][op'.name = "log" =>
         \A i \in Made :
             Registrations(i) = 1 =>
                 IF op'.arg >= level[i]
                 THEN /\ Len(buffer'[i]) = Len(buffer[i]) + 1
                      /\ SubSeq(buffer'[i], 1, Len(buffer[i])) = buffer[i]
                      /\ Last(buffer'[i]).level = op'.arg
                      /\ Last(buffer'[i]).kind = "app"
                 ELSE buffer'[i] = buffer[i]]_vars

\* C1 witness: the threshold was changed to WARNING and a record of exactly
\* that rank was logged and is the last of the buffer.
C1_Witness ==
    /\ op.name = "log"
    /\ level[1] = LevelNo("WARNING")
    /\ op.arg = level[1]
    /\ buffer[1] # <<>>
    /\ Last(buffer[1]).level = level[1]

\* C2: when send_notification is called with a non-empty buffer and notify raises
\* or returns false, the buffer is afterwards what it was before the call.
C2_FailedDeliveryKeepsBuffer ==
    [][(/\ op'.name = "send"
        /\ buffer[op'.inst] # <<>>
        /\ op'.notify # <<>>
        /\ op'.notify[1].result \in {"false", "raise"})
       => buffer'[op'.inst] = buffer[op'.inst]]_vars

\* C3: a delivery that apprise accepts, with nothing logged while it ran, holds
\* every record that was in the buffer at a failed attempt made since the last
\* accepted delivery, and leaves the buffer empty.
C3_RetryDeliversFailedRecords ==
    \A k \in 1..Len(op.notify) :
        (op.notify[k].result = "ok" /\ op.notify[k].whole)
            => /\ op.notify[k].missed = {}
               /\ buffer[op.notify[k].inst] = <<>>

\* C3 witness: an accepted delivery whose body holds a record of a failed attempt.
C3_Witness ==
    \E k \in 1..Len(op.notify) :
        /\ op.notify[k].result = "ok"
        /\ op.notify[k].whole
        /\ op.notify[k].retried # {}
        /\ buffer[op.notify[k].inst] = <<>>

\* C4: send_notification on an empty buffer calls apprise not at all and leaves
\* the buffer empty.
C4_EmptySendIsNoOp ==
    [][(op'.name = "send" /\ buffer[op'.inst] = <<>>)
       => (buffer'[op'.inst] = <<>> /\ op'.notify = <<>>)]_vars

\* C5: whatever logger.remove calls were made, a record logged at or above the
\* threshold of a constructed instance is appended to that instance's buffer.
C5_EveryInstanceKeepsReceiving ==
    [][op'.name = "log" =>
         \A i \in Made :
             op'.arg >= level[i] =>
                 /\ Len(buffer'[i]) = Len(buffer[i]) + 1
                 /\ Last(buffer'[i]).level = op'.arg]_vars

C7_OneSendPerUncaughtException ==
    IsHookOp => Len(op.sends) = 1

\* C7 witness: an uncaught exception was handled with two or more instances
\* constructed.
C7_Witness ==
    /\ IsHookOp
    /\ ninst >= 2
    /\ op.inst = ninst
    /\ op.sends = <<ninst>>

\* C8: when cleanup returns without having called send_notification, every
\* record in the buffer of its instance has been accepted by apprise before.
C8_CleanupSkipsOnlyDelivered ==
    (op.name = "cleanup" /\ op.sends = <<>>)
        => IdSet(buffer[op.inst]) \subseteq submitted[op.inst]

\* C9: every constructed instance has exactly one live flush thread while its
\* stop flag is clear and none while it is set.
C9_OneFlushThreadPerInstance ==
    \A i \in Made : Live(State, i) = IF stop_event[i] THEN 0 ELSE 1

\* C10: no flush thread that was started before flush_interval was changed
\* triggers a delivery after the change.
C10_NoDeliveryByOldLoop ==
    op.name = "flush_timeout" => ~ThreadAt(State, op.inst, op.arg).old

\* C11: with only the flush loop delivering, a delivery apprise accepts holds no
\* record it accepted before (a buffered record makes one submission, not two),
\* and leaves the buffer empty when nothing was logged while it ran.
C11_OnePeriodicSubmission ==
    [][(op'.name = "flush_notified" /\ op'.notify[1].result = "ok")
       => /\ Elems(op'.notify[1].ids) \cap submitted[op'.inst] = {}
          /\ (op'.notify[1].whole => buffer'[op'.inst] = <<>>)]_vars

\* C12: when cleanup makes its final send_notification call, no flush thread of
\* the instance is alive.
C12_CleanupStopsLoopFirst ==
    (op.name = "cleanup" /\ op.sends # <<>>) => Live(State, op.inst) = 0

\* C13: the exit flag is set exactly by the handling of an uncaught exception
\* and is never cleared; a cleanup called with the flag set calls neither
\* send_notification nor apprise, and a cleanup called with the flag clear calls
\* send_notification once, which calls apprise once if the buffer holds a record
\* and not at all if it is empty.
C13_CleanupDeliversUnlessCrashed ==
    [][/\ (op'.name \in {"sys_excepthook", "threading_excepthook"} => exit_flag')
       /\ (exit_flag => exit_flag')
       /\ ((exit_flag' /\ ~exit_flag)
               => op'.name \in {"sys_excepthook", "threading_excepthook"})
       /\ (op'.name = "cleanup" =>
               IF exit_flag
               THEN op'.sends = <<>> /\ op'.notify = <<>>
               ELSE /\ op'.sends = <<op'.inst>>
                    /\ Len(op'.notify) = IF buffer[op'.inst] # <<>> THEN 1 ELSE 0)]_vars

\* C13 witness: an uncaught exception was handled and its record accepted by
\* apprise; cleanup was then called and made no delivery attempt.
C13_Witness ==
    /\ op.name = "cleanup"
    /\ exit_flag
    /\ op.sends = <<>>
    /\ \E k \in 1..MaxRecords + 1 : k \in submitted[op.inst]
    /\ buffer[op.inst] = <<>>

\* the values the setter of flush_interval must refuse: not a number, or a
\* number that is not positive
BadInterval(value) == value.type \notin {"int", "float"} \/ value.num <= 0

\* C14: assigning flush_interval a value that is not a number or is not
\* positive raises ValueError, leaves flush_interval as it was and leaves the
\* flush threads and the stop flag as they were.
C14_BadIntervalRefused ==
    [][(op'.name = "assign_interval" /\ BadInterval(op'.arg))
       => /\ op'.raised = "ValueError"
          /\ interval' = interval
          /\ cur' = cur
          /\ stale' = stale
          /\ stop_event' = stop_event]_vars

\* C14 witness: flush_interval was changed to 1, the flush loop is inside a
\* delivery, and a string was assigned and refused.
C14_Witness ==
    /\ op.name = "assign_interval"
    /\ op.arg.type = "str"
    /\ op.raised = "ValueError"
    /\ interval[op.inst] = 1
    /\ cur[op.inst].pc = "notify"

\* the trigger levels that name a rank, and the rank each names
NamesRank(value) ==
    \/ value.type \in {"int", "Level"}
    \/ value.type = "str" /\ value.name \in LevelNames
RankOf(value) == IF value.type = "str" THEN LevelNo(value.name) ELSE value.num

\* C15: after a construction with, or an assignment of, an integer rank, a
\* known level name or a Level object, notification_level is the rank named.
C15_LevelIsRankNamed ==
    (op.name \in {"construct_with", "assign_level"} /\ NamesRank(op.arg))
        => (op.raised = "none" /\ level[op.inst] = RankOf(op.arg))

\* C16: assigning notification_level a value that is not an int, a str or a
\* Level raises TypeError, assigning it a name loguru does not know raises
\* ValueError, and both leave notification_level and the buffers as they were.
C16_BadLevelRefused ==
    [][(op'.name = "assign_level" /\ ~NamesRank(op'.arg))
       => /\ op'.raised = IF op'.arg.type = "str" THEN "ValueError" ELSE "TypeError"
          /\ level' = level
          /\ buffer' = buffer]_vars

\* C16 witness: with the threshold changed to DEBUG and a record buffered, a
\* value of another type was assigned and refused.
C16_Witness ==
    /\ op.name = "assign_level"
    /\ op.raised = "TypeError"
    /\ level[op.inst] = LevelNo("DEBUG")
    /\ buffer[op.inst] # <<>>

\* the hook that was in place before the first Appriser was constructed
OriginalBase ==
    IF op.name = "sys_excepthook" THEN sys_hook.base ELSE thr_hook.base

\* C17: when the installed hook handles an uncaught exception, the hook that was
\* in place before is called once, after the hook's send_notification call has
\* returned, whatever the delivery's outcome, if it is not the interpreter's
\* own, and is not called if it is.
C17_OriginalHookCalledOnce ==
    IsHookOp =>
        IF OriginalBase = "stdlib"
        THEN op.chained = 0
        ELSE op.chained = 1 /\ op.sent_before = 1

\* C18: the installed hook calls send_notification of its instance in the
\* handling itself, and when the instance's threshold is at most ERROR that
\* call reaches apprise with a body whose last message is the record of the
\* uncaught exception.
C18_CrashDeliversAtOnce ==
    IsHookOp =>
        /\ op.sends = <<op.inst>>
        /\ level[op.inst] <= LevelNo("ERROR") =>
               /\ Len(op.notify) = 1
               /\ op.notify[1].inst = op.inst
               /\ Len(op.notify[1].body) >= 2
               /\ SubSeq(op.notify[1].body, Len(op.notify[1].body) - 1,
                         Len(op.notify[1].body)) = <<"u", "LF">>

\* C18 witness: with the threshold changed to WARNING and a record buffered, an
\* uncaught exception was handled and its record delivered after the other.
C18_Witness ==
    /\ IsHookOp
    /\ level[op.inst] = LevelNo("WARNING")
    /\ Len(op.notify) = 1
    /\ Len(op.notify[1].ids) = 2
    /\ Last(op.notify[1].body) = "LF"
    /\ op.notify[1].result = "ok"

\* the flush threads of instance i that are in their wait
WaitingThreads(i) ==
    (IF cur[i].pc = "wait" THEN 1 ELSE 0)
        + Len(SelectSeq(stale[i], LAMBDA t : t.pc = "wait"))

\* C19: stop_periodic_flush called with no live flush thread, or called again
\* right after itself, changes nothing; called with a live flush thread it
\* leaves the stop flag set and no flush thread in its wait; and no flush
\* thread triggers a delivery while the flag is set.
C19_StopIsSafe ==
    [][/\ op'.name = "stop" =>
              /\ (cur[op'.inst].pc = "none" \/ (op.name = "stop" /\ op.inst = op'.inst))
                     => /\ stop_event' = stop_event
                        /\ cur' = cur
                        /\ stale' = stale
                        /\ buffer' = buffer
                        /\ interval' = interval
              /\ \A i \in Inst :
                     (op'.inst = i /\ cur[i].pc # "none")
                         => (stop_event'[i] /\ WaitingThreads(i)' = 0)
       /\ op'.name = "flush_timeout" => ~stop_event[op'.inst]]_vars

\* C19 witness: stop_periodic_flush was called while the flush thread was
\* inside a delivery; the flag is set and the thread has not ended yet.
C19_Witness ==
    /\ op.name = "stop"
    /\ stop_event[op.inst]
    /\ cur[op.inst].pc = "notify"

\* C20: a flush thread triggers a delivery only from its wait and with the stop
\* flag clear; the threads that stop_periodic_flush wakes end without a call of
\* send_notification and with the buffer as it was; and a thread that finds
\* the flag set when its delivery returns ends without another delivery.
C20_LoopDeliversOnlyOnTimeout ==
    [][/\ op'.name = "flush_timeout" =>
              /\ ~stop_event[op'.inst]
              /\ ThreadAt(State, op'.inst, op'.arg).pc = "wait"
       /\ op'.name = "stop" =>
              /\ buffer' = buffer
              /\ op'.sends = <<>>
              /\ op'.notify = <<>>
       /\ \A i \in Inst :
              (op'.name = "flush_notified" /\ op'.inst = i /\ stop_event[i]) =>
                  /\ Live(State, i)' = Live(State, i) - 1
                  /\ WaitingThreads(i)' = WaitingThreads(i)
                  /\ op'.sends = <<>>]_vars

\* C20 witness: stop was requested while a flush thread was inside a delivery
\* that then failed; the thread ended and the record is still in the buffer.
C20_Witness ==
    /\ op.name = "flush_notified"
    /\ stop_event[op.inst]
    /\ op.notify[1].result = "false"
    /\ Live(State, op.inst) = 0
    /\ buffer[op.inst] # <<>>

\* C21: an emit of a record that carries the marker forwards nothing and
\* changes nothing; an emit of a record that does not sets the marker and
\* forwards the record once; so no record is ever forwarded twice.
C21_ForwardedAtMostOnce ==
    [][/\ \A r \in 1..Len(legacy') : legacy'[r].forwards <= 1
       /\ \A r \in 1..Len(legacy) :
              (op'.name = "emit" /\ op'.arg = r) =>
                  IF legacy[r].handled
                  THEN /\ op'.forwarded = 0
                       /\ legacy' = legacy
                       /\ buffer' = buffer
                  ELSE /\ op'.forwarded = 1
                       /\ legacy'[r].handled
       /\ op'.name = "logging_log" =>
              /\ op'.forwarded = 1
              /\ legacy'[op'.arg].handled]_vars

\* C21 witness: a record that was forwarded and buffered was emitted again, and
\* the buffer holds it once.
C21_Witness ==
    /\ op.name = "emit"
    /\ op.forwarded = 0
    /\ legacy[op.arg].forwards = 1
    /\ Len(buffer[1]) = 1
    /\ buffer[1][1].kind = "legacy"

\* C25: the first emit of a record whose level name loguru does not know
\* raises nothing and logs the record at its number: each registered instance
\* whose threshold is at most that number gains exactly that record, of that
\* rank, at the end of its buffer, and every other buffer is left as it was.
C25_UnknownNameKeepsRank ==
    [][\A r \in 1..Len(legacy') :
           (/\ op'.name \in {"logging_log", "emit"}
            /\ op'.arg = r
            /\ legacy'[r].levelname \notin LevelNames
            /\ (r <= Len(legacy) => ~legacy[r].handled))
           => /\ op'.raised = "none"
              /\ op'.forwarded = 1
              /\ \A i \in Made :
                     IF legacy'[r].levelno >= level[i]
                     THEN /\ Len(buffer'[i]) = Len(buffer[i]) + 1
                          /\ SubSeq(buffer'[i], 1, Len(buffer[i])) = buffer[i]
                          /\ Last(buffer'[i]).level = legacy'[r].levelno
                          /\ Last(buffer'[i]).kind = "legacy"
                     ELSE buffer'[i] = buffer[i]]_vars

\* C25 witness: with the threshold changed to WARNING, a record of the unknown
\* level name was logged and is in the buffer with its number as its rank.
C25_Witness ==
    /\ op.name = "logging_log"
    /\ legacy[op.arg].levelname = "CUSTOM"
    /\ level[1] = LevelNo("WARNING")
    /\ buffer[1] # <<>>
    /\ Last(buffer[1]).level = legacy[op.arg].levelno
    /\ Last(buffer[1]).kind = "legacy"

\* the messages of a buffer, each without its carriage returns
WithoutCR(buf) == [k \in 1..Len(buf) |-> [buf[k] EXCEPT !.text = StripCR(@)]]

\* C22: send_notification called with a non-empty buffer calls apprise once,
\* with the title "Script Notifications" and with the buffered messages, all of
\* them and in their order, joined without their carriage returns; when apprise
\* accepts, the buffer is empty afterwards.
C22_OneSubmissionOfWholeBuffer ==
    [][(op'.name = "send" /\ buffer[op'.inst] # <<>>)
       => /\ Len(op'.notify) = 1
          /\ op'.notify[1].title = "Script Notifications"
          /\ op'.notify[1].ids = Ids(buffer[op'.inst])
          /\ op'.notify[1].body = Join(WithoutCR(buffer[op'.inst]))
          /\ "CR" \notin Elems(op'.notify[1].body)
          /\ (op'.notify[1].result = "ok" => buffer'[op'.inst] = <<>>)]_vars

\* C22 witness: two records, one with a carriage return in its message, were
\* delivered in one accepted submission.
C22_Witness ==
    /\ op.name = "send"
    /\ Len(op.notify) = 1
    /\ op.notify[1].result = "ok"
    /\ Len(op.notify[1].ids) = 2
    /\ op.notify[1].body \in {<<"w", "LF", "e", "LF">>, <<"e", "LF", "w", "LF">>}
    /\ buffer[op.inst] = <<>>

\* C23: whatever constructions are made, the installed sys.excepthook and
\* threading.excepthook are each one wrapper, of the instance constructed last,
\* around the hook that was in place before the first construction.
C23_WrappersNeverNest ==
    [][/\ sys_hook'.base = sys_hook.base
       /\ thr_hook'.base = thr_hook.base
       /\ Len(sys_hook'.wrappers) = 1
       /\ Len(thr_hook'.wrappers) = 1
       /\ op'.name = "construct" =>
              /\ sys_hook'.wrappers = <<op'.inst>>
              /\ thr_hook'.wrappers = <<op'.inst>>]_vars

\* C23 witness: a second instance was constructed with a function of the
\* application in place as the hook before the first.
C23_Witness ==
    /\ op.name = "construct"
    /\ ninst >= 2
    /\ sys_hook = [wrappers |-> <<ninst>>, base |-> "user"]
    /\ thr_hook = [wrappers |-> <<ninst>>, base |-> "user"]

\* C24: an operation in which apprise raised raises nothing itself; a flush
\* thread whose delivery raised is back in its wait with the stop flag clear,
\* so it delivers again when the wait times out; and a hook whose delivery
\* raised still calls the application's hook that was in place before.
C24_DeliveryFailureStaysInside ==
    [][/\ (\E k \in 1..Len(op'.notify) : op'.notify[k].result = "raise")
              => op'.raised = "none"
       /\ \A i \in Inst :
              (/\ op'.name = "flush_notified"
               /\ op'.inst = i
               /\ op'.notify[1].result = "raise"
               /\ ~stop_event[i])
              => /\ Live(State, i)' = Live(State, i)
                 /\ WaitingThreads(i)' = WaitingThreads(i) + 1
                 /\ ~stop_event'[i]
       /\ (/\ op'.name = "sys_excepthook"
           /\ sys_hook.base = "user"
           /\ op'.notify # <<>>
           /\ op'.notify[1].result = "raise")
              => op'.chained = 1
       /\ (/\ op'.name = "threading_excepthook"
           /\ thr_hook.base = "user"
           /\ op'.notify # <<>>
           /\ op'.notify[1].result = "raise")
              => op'.chained = 1]_vars

\* C24 witness: apprise raised in a delivery of the flush loop, and the flush
\* thread is waiting again with the record still buffered.
C24_Witness ==
    /\ op.name = "flush_notified"
    /\ op.notify[1].result = "raise"
    /\ op.raised = "none"
    /\ cur[op.inst].pc = "wait"
    /\ ~stop_event[op.inst]
    /\ buffer[op.inst] # <<>>

\* C26: a step leaves a buffer as it was, appends to it or empties it; a
\* change of the threshold or of the flush interval and stop_periodic_flush
\* leave every buffer as it was; and a flush thread whose wait times out on an
\* empty buffer, and so delivers nothing, leaves the buffer empty.
C26_BufferChangesOnlyByAppendOrClear ==
    [][/\ \A i \in Inst :
              \/ buffer'[i] = <<>>
              \/ /\ Len(buffer'[i]) >= Len(buffer[i])
                 /\ SubSeq(buffer'[i], 1, Len(buffer[i])) = buffer[i]
       /\ op'.name \in {"set_level", "assign_level", "set_interval",
                        "assign_interval", "stop"}
              => buffer' = buffer
       /\ (op'.name = "flush_timeout" /\ buffer[op'.inst] = <<>>)
              => buffer'[op'.inst] = <<>>]_vars

\* C27: assigning flush_interval the value it has raises nothing and leaves
\* flush_interval, the flush threads, the stop flag and the buffers as they
\* were.
C27_SameIntervalChangesNothing ==
    [][(/\ op'.name = "assign_interval"
        /\ ~BadInterval(op'.arg)
        /\ op'.arg.num = interval[op'.inst])
       => /\ op'.raised = "none"
          /\ interval' = interval
          /\ cur' = cur
          /\ stale' = stale
          /\ stop_event' = stop_event
          /\ buffer' = buffer]_vars

\* C27 witness: flush_interval is 1 and was assigned 1.0 while the flush thread
\* was inside a delivery; the thread is the one self._flush_thread refers to
\* and no other was started.
C27_Witness ==
    /\ op.name = "assign_interval"
    /\ op.arg = FloatVal(1)
    /\ interval[op.inst] = 1
    /\ cur[op.inst].pc = "notify"
    /\ stale[op.inst] = <<>>
    /\ ~stop_event[op.inst]

\* C28: logger.remove(handle) for a sink that is no accumulator removes that
\* handler and nothing else: every other handler stays, none is added, and
\* Appriser._accumulator_id keeps its value.
C28_RemovingAnotherSinkOnly ==
    [][\A h \in handlers :
           (op'.name = "remove" /\ op'.arg = h.id /\ h.sink = 0)
           => /\ handlers' = handlers \ {h}
              /\ accumulator_id' = accumulator_id
              /\ next_id' = next_id]_vars

\* C28 witness: with two instances constructed, loguru's stderr handler was
\* removed by its handle; both accumulators are registered as before.
C28_Witness ==
    /\ op.name = "remove"
    /\ op.arg = 0
    /\ ninst >= 2
    /\ \A i \in Made : Registrations(i) = 1
    /\ Cardinality(handlers) = ninst
    /\ accumulator_id \in HandlerIds(State)

\* C29: a delivery that apprise accepts removes from the buffer only records
\* that were in its body.
C29_ClearedRecordsWereSubmitted ==
    [][(op'.name = "flush_notified" /\ op'.notify[1].result = "ok")
       => IdSet(buffer[op'.inst]) \subseteq Elems(op'.notify[1].ids)]_vars

\* C30: with threads calling logger.remove at the same time, no instance's
\* accumulate_log is registered twice, and no buffer holds a record twice.
C30_NeverRegisteredTwice ==
    \A i \in Made :
        /\ Registrations(i) <= 1
        /\ Cardinality(IdSet(buffer[i])) = Len(buffer[i])

\* C31: with every delivery accepted, a submission of an instance holds no
\* record that an earlier submission of the same instance held, and no two
\* submissions made by one operation for one instance share a record.
C31_SubmittedAtMostOnce ==
    [][\A k \in 1..Len(op'.notify) :
           /\ op'.notify[k].result = "ok"
           /\ Elems(op'.notify[k].ids) \cap submitted[op'.notify[k].inst] = {}
           /\ \A j \in 1..(k - 1) :
                  op'.notify[j].inst = op'.notify[k].inst =>
                      Elems(op'.notify[j].ids) \cap Elems(op'.notify[k].ids) = {}]_vars

\* C32: an assignment of a valid value that differs from the current one leaves
\* the instance with the new interval, the stop flag clear and a fresh flush
\* thread in its wait, whether or not a flush thread was alive before.
C32_IntervalChangeLeavesLoopRunning ==
    [][\A i \in Inst, value \in Intervals :
           (/\ op'.name = "set_interval"
            /\ op'.inst = i
            /\ op'.arg = value
            /\ value # interval[i])
           => /\ interval'[i] = value
              /\ ~stop_event'[i]
              /\ cur'[i] = Waiting
              /\ op'.was_stopped = (cur[i].pc = "none")]_vars

\* C32 witness: the interval of an instance whose flush thread was not alive
\* was changed, and its loop is waiting again with the new interval.
C32_Witness ==
    /\ op.name = "set_interval"
    /\ op.was_stopped
    /\ op.inst \in Own
    /\ interval[op.inst] = op.arg
    /\ ~stop_event[op.inst]
    /\ cur[op.inst] = Waiting

\* C33: the first emit of a record raises nothing, and the depth it computes
\* is the number of frames before the first one that is not ignorable, for
\* every stack, among them a stack of which every frame is ignorable.
C33_CallerWalkEndsAtFirstRealFrame ==
    [][\A r \in 1..Len(legacy') :
           (/\ op'.name \in {"logging_from", "emit"}
            /\ op'.arg = r
            /\ (r <= Len(legacy) => ~legacy[r].handled))
           => /\ op'.raised = "none"
              /\ legacy'[r].depth \in 0..(Len(legacy'[r].stack) - 1)
              /\ ~_should_ignore_this_frame(legacy'[r].stack[legacy'[r].depth + 1])
              /\ \A k \in 1..legacy'[r].depth :
                     _should_ignore_this_frame(legacy'[r].stack[k])]_vars

\* the module of the hook that was in place before the import
OriginalModule == HookModule(Unwrap(sys_hook))

\* C34 as stated: the hook is stdlib exactly when its module has no file, or its
\* file lies under the standard-library path, or its top-level package is in
\* the allow-list; a hook without a module is not stdlib, and neither is one
\* whose file lies under site-packages or dist-packages.
C34_StdlibExactlyWhenAsStated ==
    LET m == OriginalModule
        stdlib == _is_method_in_stdlib(m)
    IN /\ stdlib <=> /\ m.found
                      /\ \/ m.file = <<>>
                         \/ IsRelativeTo(m.file, StdlibPath)
                         \/ m.top \in _STDLIB_BACKPORTS
       /\ ~m.found => ~stdlib
       /\ InSitePackages(m.file) => ~stdlib

\* C34: the hook is stdlib exactly when a module is found for it and either the
\* top-level package of its module is named as a standard-library module or
\* is in the allow-list, wherever its file lies, or the module has no file, or
\* its file lies under the standard-library path and not under site-packages
\* or dist-packages; and the handler of an uncaught exception calls the
\* original hook exactly when it is not stdlib.
C34_StdlibExactlyWhen ==
    LET m == OriginalModule
        stdlib == _is_method_in_stdlib(m)
    IN /\ stdlib <=> /\ m.found
                      /\ \/ m.top \in StdlibModuleNames
                         \/ m.top \in _STDLIB_BACKPORTS
                         \/ m.file = <<>>
                         \/ ~InSitePackages(m.file) /\ IsRelativeTo(m.file, StdlibPath)
       /\ ~m.found => ~stdlib
       /\ op.name = "sys_excepthook" => (op.chained = 0 <=> stdlib)

\* C34 witness: the hook of an installed back-port, whose file lies under
\* site-packages, was in place before the import; an uncaught exception was
\* handled and the hook was not called.
C34_Witness ==
    /\ op.name = "sys_excepthook"
    /\ op.chained = 0
    /\ OriginalModule.top \in _STDLIB_BACKPORTS
    /\ InSitePackages(OriginalModule.file)

\* C35: however many instances were constructed, a call of logger.remove calls
\* loguru's own remove exactly once, and logging.Logger._log has at most one
\* wrapper of this module around it.
C35_OriginalRemoveOnceLogWrappedOnce ==
    /\ log_method.wrappers <= 1
    /\ log_method.intercepted <=> log_method.wrappers = 1
    /\ op.name = "remove" => op.originals = 1

\* C35 witness: logger.remove was called after every instance the bound allows
\* was constructed; loguru's own remove ran once and Logger._log has one wrapper.
C35_Witness ==
    /\ ninst = MaxInstances
    /\ op.name = "remove"
    /\ op.originals = 1
    /\ log_method.wrappers = 1
    /\ remove_self = MaxInstances

====
